---- MODULE Spec2Model ----
(***************************************************************************)
(* warp_fixnum: a fixed-width unsigned integer held one digit per lane of  *)
(* a slot of N lockstep lanes (src/src/fixnum/warp_fixnum.cu).             *)
(*                                                                         *)
(* A per-lane variable of the source is a function from the lane index to  *)
(* its value in that lane; a collective (shfl, shfl_up0, rotate_up,        *)
(* ballot) is an operator on such functions.  The digit type (word_fixnum) *)
(* and the slot layout (slot_layout) are included by the source but are    *)
(* not part of it; they are modelled from their contract.                  *)
(***************************************************************************)
EXTENDS Integers, Sequences, FiniteSets, TLC

(***************************************************************************)
(* Sizes.  digit::BITS is 32 or 64 and WARPSIZE is 32 in the builds; the   *)
(* model keeps the structure (a vote mask of WARPSIZE bits, slot widths    *)
(* that divide it, digits wide enough to count N carries) at small sizes.  *)
(***************************************************************************)
DigitBits == 3

WARPSIZE == 4

FullBits1 == 12

FullBits2 == 6

RECURSIVE Pow2(_)
Pow2(n) == IF n <= 0 THEN 1 ELSE 2 * Pow2(n - 1)

\* digit::BITS
DIGIT_BITS == DigitBits

\* the number of values of a digit, 2^digit::BITS
B == Pow2(DIGIT_BITS)

Digits == 0 .. (B - 1)

\* the bits of the uint32_t that holds a vote mask: one per lane of a warp
UINT32_BITS == WARPSIZE

\* the number of values of that uint32_t
MASK == Pow2(UINT32_BITS)

\* slot widths: SLOT_WIDTH = BYTES / digit::BYTES, a divisor of WARPSIZE
Widths == {w \in 1 .. WARPSIZE : WARPSIZE % w = 0}

Lanes(N) == 0 .. (N - 1)

\* fixnum::BITS = 8 * BYTES = SLOT_WIDTH * digit::BITS
BITS(N) == N * DIGIT_BITS

toplaneIdx(N) == N - 1

(***************************************************************************)
(* Values and bit masks.                                                   *)
(***************************************************************************)
RECURSIVE ValueUpTo(_, _)
ValueUpTo(x, n) == IF n = 0 THEN 0 ELSE ValueUpTo(x, n - 1) + x[n - 1] * Pow2(DIGIT_BITS * (n - 1))

\* the unsigned integer a fixnum stands for: lane 0 is the least significant digit
Value(N, x) == ValueUpTo(x, N)

RECURSIVE FromBits(_, _)
FromBits(f, n) == IF n = 0 THEN 0 ELSE FromBits(f, n - 1) + f[n - 1] * Pow2(n - 1)

Bit(m, i) == (m \div Pow2(i)) % 2

BitOr(x, y) == FromBits([i \in 0 .. (UINT32_BITS - 1) |-> IF Bit(x, i) = 1 \/ Bit(y, i) = 1 THEN 1 ELSE 0], UINT32_BITS)

BitXor(x, y) == FromBits([i \in 0 .. (UINT32_BITS - 1) |-> IF Bit(x, i) # Bit(y, i) THEN 1 ELSE 0], UINT32_BITS)

\* x << k in a uint32_t
Shl32(x, k) == (x * Pow2(k)) % MASK

\* x >> k in a uint32_t
Shr32(x, k) == x \div Pow2(k)

RECURSIVE CountLeadingZeros(_, _)
CountLeadingZeros(x, w) == IF w = 0 \/ Bit(x, w - 1) = 1 THEN 0 ELSE 1 + CountLeadingZeros(x, w - 1)

RECURSIVE CountTrailingZeros(_, _, _)
CountTrailingZeros(x, i, w) == IF i >= w \/ Bit(x, i) = 1 THEN 0 ELSE 1 + CountTrailingZeros(x, i + 1, w)

\* internal::clz and internal::ctz on a uint32_t: the word width for zero
internal_clz(x) == CountLeadingZeros(x, UINT32_BITS)

internal_ctz(x) == CountTrailingZeros(x, 0, UINT32_BITS)

(***************************************************************************)
(* The slot layout (slot_layout<digit, SLOT_WIDTH>).                       *)
(***************************************************************************)
\* broadcast: every lane receives lane srcLane's value (the index is taken modulo the width)
shfl(N, var, srcLane) == var[srcLane % N]

\* lane i receives lane i-delta's value, or zero if i < delta
shfl_up0(N, var, delta) == [L \in Lanes(N) |-> IF L < delta THEN 0 ELSE var[L - delta]]

\* lane i receives lane i-delta's value; the bottom delta lanes keep their own
shfl_up(N, var, delta) == [L \in Lanes(N) |-> IF L < delta THEN var[L] ELSE var[L - delta]]

\* circular shift up
rotate_up(N, var, delta) == [L \in Lanes(N) |-> var[(L + N - delta) % N]]

\* vote: bit i of the mask is set iff lane i's predicate is nonzero
ballot(N, tst) == FromBits([L \in Lanes(N) |-> IF tst[L] # 0 THEN 1 ELSE 0], N)

(***************************************************************************)
(* The digit type, applied lane by lane.                                   *)
(***************************************************************************)
digit_zero(N) == [L \in Lanes(N) |-> 0]

digit_add_cy(N, x, y) == [r |-> [L \in Lanes(N) |-> (x[L] + y[L]) % B], cy |-> [L \in Lanes(N) |-> (x[L] + y[L]) \div B]]

digit_add(N, x, y) == [L \in Lanes(N) |-> (x[L] + y[L]) % B]

digit_sub_br(N, x, y) == [r |-> [L \in Lanes(N) |-> (x[L] - y[L] + B) % B], br |-> [L \in Lanes(N) |-> IF x[L] < y[L] THEN 1 ELSE 0]]

digit_sub(N, x, y) == [L \in Lanes(N) |-> (x[L] - y[L] + B) % B]

digit_is_max(N, x) == [L \in Lanes(N) |-> IF x[L] = B - 1 THEN 1 ELSE 0]

digit_is_min(N, x) == [L \in Lanes(N) |-> IF x[L] = 0 THEN 1 ELSE 0]

digit_is_zero(N, x) == [L \in Lanes(N) |-> IF x[L] = 0 THEN 1 ELSE 0]

\* r = hi(x * y) + c, and cy is incremented by the carry of that addition
digit_mad_hi_cc(N, cyin, x, y, c) ==
    [r  |-> [L \in Lanes(N) |-> (((x[L] * y[L]) \div B) + c[L]) % B],
     cy |-> [L \in Lanes(N) |-> (cyin[L] + ((((x[L] * y[L]) \div B) + c[L]) \div B)) % B]]

\* r = lo(x * y) + c, and cy is incremented by the carry of that addition
digit_mad_lo_cc(N, cyin, x, y, c) ==
    [r  |-> [L \in Lanes(N) |-> (((x[L] * y[L]) % B) + c[L]) % B],
     cy |-> [L \in Lanes(N) |-> (cyin[L] + ((((x[L] * y[L]) % B) + c[L]) \div B)) % B]]

\* y = x << q and overflow = the q bits shifted out of the top, for 0 <= q < digit::BITS
digit_lshift(N, x, q) ==
    [y        |-> [L \in Lanes(N) |-> (x[L] * Pow2(q)) % B],
     overflow |-> [L \in Lanes(N) |-> x[L] \div Pow2(DIGIT_BITS - q)]]

digit_rshift(N, x, q) == [L \in Lanes(N) |-> x[L] \div Pow2(q)]

digit_rem_2exp(N, x, q) == [L \in Lanes(N) |-> x[L] % Pow2(q)]

\* x where the lane's condition holds and zero elsewhere
digit_set_if(N, x, cond) == [L \in Lanes(N) |-> IF cond[L] THEN x[L] ELSE 0]

digit_clz(d) == CountLeadingZeros(d, DIGIT_BITS)

digit_ctz(d) == CountTrailingZeros(d, 0, DIGIT_BITS)

\* (hi, lo) = x * y
digit_mul_wide(N, x, y) ==
    [hi |-> [L \in Lanes(N) |-> (x[L] * y[L]) \div B],
     lo |-> [L \in Lanes(N) |-> (x[L] * y[L]) % B]]

\* (hi, lo) = x * y + c
digit_umad(N, x, y, c) ==
    [hi |-> [L \in Lanes(N) |-> (x[L] * y[L] + c[L]) \div B],
     lo |-> [L \in Lanes(N) |-> (x[L] * y[L] + c[L]) % B]]

(***************************************************************************)
(* The carry engine.                                                       *)
(***************************************************************************)
\* a mutant: the overflow of a full-width mask is read as if a bit WIDTH existed
effective_carries_shiftonly(N, propagate, cy) ==
    LET g == ballot(N, cy)
        p == ballot(N, propagate)
        allcarries == (BitOr(p, g) + g) % MASK
        cy_hi == Bit(Shr32(allcarries, N), 0)
        eff == BitOr(BitXor(allcarries, p), Shl32(g, 1))
    IN  [cy_hi |-> cy_hi, r |-> [L \in Lanes(N) |-> Bit(Shr32(eff, L), 0)]]

effective_carries(N, propagate, cy) ==
    LET g == ballot(N, cy)
        p == ballot(N, propagate)
        allcarries == (BitOr(p, g) + g) % MASK
        cy_hi == IF N = WARPSIZE THEN (IF allcarries < g THEN 1 ELSE 0) ELSE Bit(Shr32(allcarries, N), 0)
        eff == BitOr(BitXor(allcarries, p), Shl32(g, 1))
    IN  [cy_hi |-> cy_hi, r |-> [L \in Lanes(N) |-> Bit(Shr32(eff, L), 0)]]

\* what one lane computes from the masks g and p the two votes handed it
carries_of_votes(N, g, p) ==
    LET allcarries == (BitOr(p, g) + g) % MASK
        cy_hi == IF N = WARPSIZE THEN (IF allcarries < g THEN 1 ELSE 0) ELSE Bit(Shr32(allcarries, N), 0)
    IN  [cy_hi |-> cy_hi, allcarries |-> BitOr(BitXor(allcarries, p), Shl32(g, 1))]

add_cy(N, x, y) ==
    LET d == digit_add_cy(N, x, y)
        e == effective_carries(N, digit_is_max(N, d.r), d.cy)
    IN  [r |-> digit_add(N, d.r, e.r), cy_hi |-> e.cy_hi]

add(N, x, y) == add_cy(N, x, y).r

\* a mutant: borrows propagate through digits at the maximum, as carries do
sub_br_ismax(N, x, y) ==
    LET d == digit_sub_br(N, x, y)
        e == effective_carries(N, digit_is_max(N, d.r), d.br)
    IN  [r |-> digit_sub(N, d.r, e.r), br_hi |-> e.cy_hi]

sub_br(N, x, y) ==
    LET d == digit_sub_br(N, x, y)
        e == effective_carries(N, digit_is_min(N, d.r), d.br)
    IN  [r |-> digit_sub(N, d.r, e.r), br_hi |-> e.cy_hi]

sub(N, x, y) == sub_br(N, x, y).r

zero(N) == digit_zero(N)

\* a mutant: the digit 1 on every lane
one_alllanes(N) == [L \in Lanes(N) |-> 1]

one(N) == [L \in Lanes(N) |-> IF L = 0 THEN 1 ELSE 0]

is_zero(N, x) == digit_is_zero(N, x)

incr_cy(N, r0) ==
    LET o == add_cy(N, r0, one(N))
    IN  [r |-> o.r, ret |-> o.cy_hi]

decr_br(N, r0) ==
    LET o == sub_br(N, r0, one(N))
    IN  [r |-> o.r, ret |-> o.br_hi]

digit_to_fixnum(N, c) == [L \in Lanes(N) |-> IF L = 0 THEN c[L] ELSE 0]

\* every lane holding the same digit d
Uniform(N, d) == [L \in Lanes(N) |-> d]

top_digit(N, var) == shfl(N, var, toplaneIdx(N))

bottom_digit(N, var) == shfl(N, var, 0)

(***************************************************************************)
(* Multiplication by one digit.  d is the digit, the same in every lane;   *)
(* r0 is what r holds at the call; ret is the returned digit and sum the   *)
(* returned sum cy_hi + cy before it is cut to a digit.                    *)
(***************************************************************************)
\* a mutant: the carry of the fold-in is not added to the returned digit
mad_digit_cy_nocy(N, r0, d, u) ==
    LET m     == digit_umad(N, Uniform(N, d), u, r0)
        cy_hi == top_digit(N, m.hi)
        hi    == shfl_up0(N, m.hi, 1)
        o     == add_cy(N, hi, m.lo)
    IN  [r |-> o.r, ret |-> cy_hi, sum |-> cy_hi]

mad_digit_cy(N, r0, d, u) ==
    LET m     == digit_umad(N, Uniform(N, d), u, r0)
        cy_hi == top_digit(N, m.hi)
        hi    == shfl_up0(N, m.hi, 1)
        o     == add_cy(N, hi, m.lo)
    IN  [r |-> o.r, ret |-> (cy_hi + o.cy_hi) % B, sum |-> cy_hi + o.cy_hi]

\* the sum is formed in the local lo; r is a parameter the body never assigns
mul_digit(N, r0, d, u) ==
    LET m     == digit_mul_wide(N, Uniform(N, d), u)
        cy_hi == top_digit(N, m.hi)
        hi    == shfl_up0(N, m.hi, 1)
        o     == add_cy(N, m.lo, hi)
    IN  [r |-> r0, lo |-> o.r, ret |-> (cy_hi + o.cy_hi) % B, sum |-> cy_hi + o.cy_hi]

(***************************************************************************)
(* Multiplication.  The loops run i = WIDTH-1 down to 0; st is the loop's  *)
(* live registers.                                                         *)
(***************************************************************************)
\* one iteration of the loop of mul_lo
mul_lo_step(N, x, y, i, st) ==
    LET aa == Uniform(N, shfl(N, x, i))
        h  == digit_mad_hi_cc(N, st.cy, aa, y, st.r)
        r1 == shfl_up0(N, h.r, 1)
        c1 == shfl_up0(N, h.cy, 1)
        l  == digit_mad_lo_cc(N, c1, aa, y, r1)
    IN  [r |-> l.r, cy |-> l.cy]

RECURSIVE mul_lo_loop(_, _, _, _, _)
mul_lo_loop(N, x, y, i, st) ==
    IF i < 0 THEN st ELSE mul_lo_loop(N, x, y, i - 1, mul_lo_step(N, x, y, i, st))

\* a mutant: the carries left after the loop are not added in
mul_lo_nofinaladd(N, x, y) ==
    mul_lo_loop(N, x, y, N - 1, [r |-> zero(N), cy |-> digit_zero(N)]).r

mul_lo(N, x, y) ==
    LET st == mul_lo_loop(N, x, y, N - 1, [r |-> zero(N), cy |-> digit_zero(N)])
        cy == shfl_up0(N, st.cy, 1)
    IN  add(N, st.r, cy)

\* one iteration of the loop of mul_wide
mul_wide_step(N, x, y, i, st) ==
    LET aa == Uniform(N, shfl(N, x, i))
        h  == digit_mad_hi_cc(N, st.cy, aa, y, st.r)
        t  == digit_to_fixnum(N, Uniform(N, shfl(N, h.cy, toplaneIdx(N))))
        s1 == add(N, st.s, t)
        s2 == shfl_up(N, s1, 1)
        t2 == shfl(N, h.r, toplaneIdx(N))
        s3 == [L \in Lanes(N) |-> IF L = 0 THEN t2 ELSE s2[L]]
        r1 == shfl_up0(N, h.r, 1)
        c1 == shfl_up0(N, h.cy, 1)
        l  == digit_mad_lo_cc(N, c1, aa, y, r1)
    IN  [r |-> l.r, s |-> s3, cy |-> l.cy]

RECURSIVE mul_wide_loop(_, _, _, _, _)
mul_wide_loop(N, x, y, i, st) ==
    IF i < 0 THEN st ELSE mul_wide_loop(N, x, y, i - 1, mul_wide_step(N, x, y, i, st))

\* a mutant: the carry out of the low half is not merged into the high half
mul_wide_nomerge(N, x, y) ==
    LET st     == mul_wide_loop(N, x, y, N - 1, [r |-> zero(N), s |-> zero(N), cy |-> digit_zero(N)])
        cy_hi0 == shfl(N, st.cy, toplaneIdx(N))
        cy1    == shfl_up0(N, st.cy, 1)
        lo     == add_cy(N, st.r, cy1)
        hi     == add_cy(N, st.s, digit_to_fixnum(N, Uniform(N, cy_hi0)))
    IN  [s |-> hi.r, r |-> lo.r, cy_hi0 |-> cy_hi0, cy |-> lo.cy_hi,
         assert1 |-> TRUE, assert2 |-> hi.cy_hi = 0]

\* a mutant: cy_hi goes into every lane of the high half, not into lane 0 alone
mul_wide_alllanes(N, x, y) ==
    LET st     == mul_wide_loop(N, x, y, N - 1, [r |-> zero(N), s |-> zero(N), cy |-> digit_zero(N)])
        cy_hi0 == shfl(N, st.cy, toplaneIdx(N))
        cy1    == shfl_up0(N, st.cy, 1)
        lo     == add_cy(N, st.r, cy1)
        cy_hi  == (cy_hi0 + lo.cy_hi) % B
        hi     == add_cy(N, st.s, Uniform(N, cy_hi))
    IN  [s |-> hi.r, r |-> lo.r, cy_hi0 |-> cy_hi0, cy |-> lo.cy_hi,
         assert1 |-> cy_hi >= lo.cy_hi, assert2 |-> hi.cy_hi = 0]

\* assert1 and assert2 are the values of the two asserted conditions, cy_hi0 is
\* cy_hi before the carry cy of the low half is added to it
mul_wide(N, x, y) ==
    LET st     == mul_wide_loop(N, x, y, N - 1, [r |-> zero(N), s |-> zero(N), cy |-> digit_zero(N)])
        cy_hi0 == shfl(N, st.cy, toplaneIdx(N))
        cy1    == shfl_up0(N, st.cy, 1)
        lo     == add_cy(N, st.r, cy1)
        cy_hi  == (cy_hi0 + lo.cy_hi) % B
        hi     == add_cy(N, st.s, digit_to_fixnum(N, Uniform(N, cy_hi)))
    IN  [s |-> hi.r, r |-> lo.r, cy_hi0 |-> cy_hi0, cy |-> lo.cy_hi,
         assert1 |-> cy_hi >= lo.cy_hi, assert2 |-> hi.cy_hi = 0]

(***************************************************************************)
(* Comparison.                                                             *)
(***************************************************************************)
nonzero_mask(N, x) == ballot(N, [L \in Lanes(N) |-> IF is_zero(N, x)[L] # 0 THEN 0 ELSE 1])

\* a mutant: the borrow alone decides, so a difference without borrow reads as equal
cmp_borrowonly(N, x, y) ==
    LET d == sub_br(N, x, y)
    IN  IF d.br_hi # 0 THEN -1 ELSE 0

cmp(N, x, y) ==
    LET d == sub_br(N, x, y)
    IN  IF nonzero_mask(N, d.r) # 0 THEN (IF d.br_hi # 0 THEN -1 ELSE 1) ELSE 0

most_sig_dig(N, x) == UINT32_BITS - (internal_clz(nonzero_mask(N, x)) + 1)

\* a mutant: the bit index within the top digit, without the digits below it
msb_indigit(N, x) ==
    LET d == most_sig_dig(N, x)
    IN  IF d < 0 THEN d ELSE DIGIT_BITS - (digit_clz(shfl(N, x, d)) + 1)

msb(N, x) ==
    LET d == most_sig_dig(N, x)
    IN  IF d < 0 THEN d ELSE DIGIT_BITS - (digit_clz(shfl(N, x, d)) + 1) + DIGIT_BITS * d

\* a mutant: the lane index past the slot is not clamped to SLOT_WIDTH
two_valuation_noclamp(N, x) ==
    LET m == nonzero_mask(N, x)
        d == internal_ctz(m)
    IN  IF d < N THEN digit_ctz(shfl(N, x, d)) + d * DIGIT_BITS ELSE d * DIGIT_BITS

two_valuation(N, x) ==
    LET m == nonzero_mask(N, x)
        d == internal_ctz(m)
    IN  IF d < N THEN digit_ctz(shfl(N, x, d)) + d * DIGIT_BITS ELSE N * DIGIT_BITS

(***************************************************************************)
(* Representation: set writes digit t[L] into lane idx alone.              *)
(***************************************************************************)
\* a mutant: every lane takes the digit
set_nomask(N, var, t, idx) == [L \in Lanes(N) |-> t[L]]

set(N, var, t, idx) == [L \in Lanes(N) |-> IF L = idx THEN t[L] ELSE var[L]]

get(N, var, idx) == shfl(N, var, idx)

(***************************************************************************)
(* Byte buffers are sequences of uint8_t; a fixnum of slot width n takes   *)
(* BYTES(n) of them.  memcpy and memset write the first cnt bytes of what  *)
(* their first argument points at, here the buffer from byte `at' on.      *)
(***************************************************************************)
UINT8_MAX == 255

digit_BYTES == 1

BYTES(n) == n * digit_BYTES

min(x, y) == IF x < y THEN x ELSE y

memcpy(dst, at, src, cnt) ==
    [i \in DOMAIN dst |-> IF at < i /\ i <= at + cnt THEN src[i - at] ELSE dst[i]]

memset(dst, at, v, cnt) ==
    [i \in DOMAIN dst |-> IF at < i /\ i <= at + cnt THEN v ELSE dst[i]]

\* a mutant: the bytes past the copied ones are left as they were
from_bytes_nofill(n, r0, bytes, nbytes) ==
    LET cnt == min(nbytes, BYTES(n))
    IN  [r |-> memcpy(r0, 0, bytes, cnt), ret |-> cnt]

from_bytes(n, r0, bytes, nbytes) ==
    LET cnt == min(nbytes, BYTES(n))
        r1  == memcpy(r0, 0, bytes, cnt)
        r2  == memset(r1, cnt, 0, BYTES(n) - cnt)
    IN  [r |-> r2, ret |-> cnt]

to_bytes(n, bytes, nbytes, r0) ==
    LET cnt == min(nbytes, BYTES(n))
    IN  [bytes |-> memcpy(bytes, 0, r0, cnt), ret |-> cnt]

(***************************************************************************)
(* Shifting.                                                               *)
(***************************************************************************)
\* a mutant: the high bits of a lane are not added into the next lane
lshift_noadd(N, x, sh) ==
    LET q   == sh \div DIGIT_BITS
        rr  == sh % DIGIT_BITS
        y0  == rotate_up(N, x, q)
        d   == digit_lshift(N, y0, rr)
        ov1 == rotate_up(N, d.overflow, 1)
        y1  == d.y
        ov2 == digit_set_if(N, y1, [L \in Lanes(N) |-> L <= q])
        t1  == digit_rem_2exp(N, ov2, rr)
        ov3 == set(N, ov2, t1, q)
        y2  == digit_set_if(N, y1, [L \in Lanes(N) |-> L >= q])
        t2  == digit_lshift(N, digit_rshift(N, y2, rr), rr).y
        y3  == set(N, y2, t2, q)
    IN  [y |-> y3, overflow |-> ov3]

\* a mutant: lane q of overflow keeps the bits that stayed in y
lshift_norem(N, x, sh) ==
    LET q   == sh \div DIGIT_BITS
        rr  == sh % DIGIT_BITS
        y0  == rotate_up(N, x, q)
        d   == digit_lshift(N, y0, rr)
        ov1 == rotate_up(N, d.overflow, 1)
        y1  == digit_add(N, d.y, ov1)
        ov2 == digit_set_if(N, y1, [L \in Lanes(N) |-> L <= q])
        t1  == ov2
        ov3 == set(N, ov2, t1, q)
        y2  == digit_set_if(N, y1, [L \in Lanes(N) |-> L >= q])
        t2  == digit_lshift(N, digit_rshift(N, y2, rr), rr).y
        y3  == set(N, y2, t2, q)
    IN  [y |-> y3, overflow |-> ov3]

\* lshift(y, overflow, x, b)
lshift(N, x, sh) ==
    LET q   == sh \div DIGIT_BITS
        rr  == sh % DIGIT_BITS
        y0  == rotate_up(N, x, q)
        d   == digit_lshift(N, y0, rr)
        ov1 == rotate_up(N, d.overflow, 1)
        y1  == digit_add(N, d.y, ov1)
        ov2 == digit_set_if(N, y1, [L \in Lanes(N) |-> L <= q])
        t1  == digit_rem_2exp(N, ov2, rr)
        ov3 == set(N, ov2, t1, q)
        y2  == digit_set_if(N, y1, [L \in Lanes(N) |-> L >= q])
        t2  == digit_lshift(N, digit_rshift(N, y2, rr), rr).y
        y3  == set(N, y2, t2, q)
    IN  [y |-> y3, overflow |-> ov3]

\* a mutant: the shift amount is passed on unchanged
rshift_sameamount(N, x, sh) ==
    LET o == lshift(N, x, sh)
    IN  [y |-> o.overflow, underflow |-> o.y]

rshift(N, x, sh) ==
    LET o == lshift(N, x, BITS(N) - sh)
    IN  [y |-> o.overflow, underflow |-> o.y]

(***************************************************************************)
(* Operands.  A fixnum of at most `full' bits takes every value; a wider   *)
(* one takes every combination of the digits in `edge'.                    *)
(***************************************************************************)
EdgeDigits == {0, 1, B - 2, B - 1}

MulEdgeDigits == {0, 1, B - 1}

Operands(N, full, edge) == IF BITS(N) <= full THEN [Lanes(N) -> Digits] ELSE [Lanes(N) -> edge]

(***************************************************************************)
(* State: the slot width, the operands, the operation applied to them and  *)
(* what it left in its outputs.                                            *)
(***************************************************************************)
VARIABLES N, a, b, op, r, s, cy, k, ret, pc, loc, votes, acc

vars == <<N, a, b, op, r, s, cy, k, ret, pc, loc, votes, acc>>

\* the lanes taken one by one: where each lane is, its locals, the votes in
\* flight and the storage each lane has touched
lanevars == <<pc, loc, votes, acc>>

\* the lanes run in lockstep
Lockstep == pc = <<>> /\ loc = <<>> /\ votes = <<>> /\ acc = {}

InitOut == op = "start" /\ r = zero(N) /\ s = zero(N) /\ cy = 0 /\ k = 0 /\ ret = 0 /\ Lockstep

\* two operands
Init == /\ N \in Widths
        /\ a \in Operands(N, FullBits2, EdgeDigits)
        /\ b \in Operands(N, FullBits2, EdgeDigits)
        /\ InitOut

AddCy == /\ op = "start"
         /\ op' = "add_cy"
         /\ LET o == add_cy(N, a, b) IN r' = o.r /\ cy' = o.cy_hi
         /\ UNCHANGED <<lanevars, N, a, b, s, k, ret>>

SubBr == /\ op = "start"
         /\ op' = "sub_br"
         /\ LET o == sub_br(N, a, b) IN r' = o.r /\ cy' = o.br_hi
         /\ UNCHANGED <<lanevars, N, a, b, s, k, ret>>

Cmp == /\ op = "start"
       /\ op' = "cmp"
       /\ ret' = cmp(N, a, b)
       /\ UNCHANGED <<lanevars, N, a, b, r, s, cy, k>>

Next == AddCy \/ SubBr \/ Cmp

Spec == Init /\ [][Next]_vars

\* mul_wide(s, r, a, b): k holds cy_hi as the loop left it, cy the carry of the
\* low half and ret what the two assertions evaluate to
MulWide == /\ op = "start"
           /\ op' = "mul_wide"
           /\ \E o \in {mul_wide(N, a, b)} :
                 /\ s' = o.s /\ r' = o.r /\ k' = o.cy_hi0 /\ cy' = o.cy
                 /\ ret' = [assert1 |-> o.assert1, assert2 |-> o.assert2]
           /\ UNCHANGED <<lanevars, N, a, b>>

MulLo == /\ op = "start"
         /\ op' = "mul_lo"
         /\ r' = mul_lo(N, a, b)
         /\ UNCHANGED <<lanevars, N, a, b, s, cy, k, ret>>

NextMul == MulWide \/ MulLo

\* two operands of a product
InitMul == /\ N \in Widths
           /\ a \in Operands(N, FullBits2, MulEdgeDigits)
           /\ b \in Operands(N, FullBits2, MulEdgeDigits)
           /\ InitOut

SpecMul == InitMul /\ [][NextMul]_vars

\* mul_digit(r, a, u) with r = b, a = the digit k, u = a:
\* r holds r after the call, s the local lo, ret the returned digit
MulDigit == /\ op = "start"
            /\ op' = "mul_digit"
            /\ \E d \in Digits :
                  \E o \in {mul_digit(N, b, d, a)} :
                     k' = d /\ r' = o.r /\ s' = o.lo /\ ret' = o.ret /\ cy' = o.sum
            /\ UNCHANGED <<lanevars, N, a, b>>

\* mad_digit_cy(r, a, u) with r = b, a = the digit k, u = a:
\* r holds r after the call, ret the returned digit, cy the sum cy_hi + cy
MadDigitCy == /\ op = "start"
              /\ op' = "mad_digit_cy"
              /\ \E d \in Digits :
                    \E o \in {mad_digit_cy(N, b, d, a)} :
                       k' = d /\ r' = o.r /\ ret' = o.ret /\ cy' = o.sum
              /\ UNCHANGED <<lanevars, N, a, b, s>>

NextDigit == MulDigit \/ MadDigitCy

SpecDigit == InitMul /\ [][NextDigit]_vars

\* one operand
InitShift == /\ N \in Widths
             /\ a \in Operands(N, FullBits1, EdgeDigits)
             /\ b = zero(N)
             /\ InitOut

\* lshift(y, overflow, x, b): r holds y and s holds overflow
Lshift == /\ op = "start"
          /\ op' = "lshift"
          /\ \E sh \in 0 .. BITS(N) :
                LET o == lshift(N, a, sh) IN k' = sh /\ r' = o.y /\ s' = o.overflow
          /\ UNCHANGED <<lanevars, N, a, b, cy, ret>>

\* rshift(y, underflow, x, b): r holds y and s holds underflow
Rshift == /\ op = "start"
          /\ op' = "rshift"
          /\ \E sh \in 0 .. BITS(N) :
                LET o == rshift(N, a, sh) IN k' = sh /\ r' = o.y /\ s' = o.underflow
          /\ UNCHANGED <<lanevars, N, a, b, cy, ret>>

\* lshift(y, x, k) and then rshift(z, y, k), for msb(x) + k < BITS:
\* r holds z and s holds what the lshift shifted out
ShiftRoundTrip ==
    /\ op = "start"
    /\ op' = "round_trip"
    /\ \E sh \in 0 .. BITS(N) :
          /\ msb(N, a) + sh < BITS(N)
          /\ LET o == lshift(N, a, sh) IN k' = sh /\ r' = rshift(N, o.y, sh).y /\ s' = o.overflow
    /\ UNCHANGED <<lanevars, N, a, b, cy, ret>>

TwoValuation == /\ op = "start"
                /\ op' = "two_valuation"
                /\ ret' = two_valuation(N, a)
                /\ UNCHANGED <<lanevars, N, a, b, r, s, cy, k>>

\* most_sig_dig(x) and msb(x): k holds the digit index and ret the bit index
Msb == /\ op = "start"
       /\ op' = "msb"
       /\ k' = most_sig_dig(N, a)
       /\ ret' = msb(N, a)
       /\ UNCHANGED <<lanevars, N, a, b, r, s, cy>>

\* incr_cy(r) with r = a: r holds r after the call and cy the returned carry
IncrCy == /\ op = "start"
          /\ op' = "incr_cy"
          /\ LET o == incr_cy(N, a) IN r' = o.r /\ cy' = o.ret
          /\ UNCHANGED <<lanevars, N, a, b, s, k, ret>>

\* decr_br(r) on what incr_cy left: s holds r after the call and ret the returned borrow
DecrBr == /\ op = "incr_cy"
          /\ op' = "decr_br"
          /\ LET o == decr_br(N, r) IN s' = o.r /\ ret' = o.ret
          /\ UNCHANGED <<lanevars, N, a, b, r, cy, k>>

NextShift == \/ Lshift \/ Rshift \/ ShiftRoundTrip \/ TwoValuation \/ Msb
             \/ IncrCy \/ DecrBr

SpecShift == InitShift /\ [][NextShift]_vars

\* one operand of set and get
InitRep == /\ N \in Widths
           /\ a \in Operands(N, FullBits2, EdgeDigits)
           /\ b = zero(N)
           /\ InitOut

\* set(var, x, idx) with var = a and every lane passing the digit x:
\* r holds var after the call, cy the digit and k the index
Set == /\ op = "start"
       /\ op' = "set"
       /\ \E x \in Digits, idx \in -1 .. N :
             r' = set(N, a, Uniform(N, x), idx) /\ cy' = x /\ k' = idx
       /\ UNCHANGED <<lanevars, N, a, b, s, ret>>

\* get(var, idx) on what set left: s holds what each lane receives, ret the index
Get == /\ op = "set"
       /\ op' = "get"
       /\ \E idx \in Lanes(N) :
             s' = Uniform(N, get(N, r, idx)) /\ ret' = idx
       /\ UNCHANGED <<lanevars, N, a, b, r, cy, k>>

NextRep == Set \/ Get

SpecRep == InitRep /\ [][NextRep]_vars

(***************************************************************************)
(* Byte buffers.  a is the buffer handed to from_bytes and b the           *)
(* destination of to_bytes as it was before the call, one byte longer than *)
(* a fixnum at most; what r held before from_bytes is not zero.            *)
(***************************************************************************)
MaxExtraBytes == 1

ByteVals == {0, UINT8_MAX}

Buffers(n) == UNION {[1 .. len -> ByteVals] : len \in 0 .. BYTES(n) + MaxExtraBytes}

InitBytes == /\ N \in Widths
             /\ a \in Buffers(N)
             /\ b \in Buffers(N)
             /\ r \in {[i \in 1 .. BYTES(N) |-> v] : v \in {1, UINT8_MAX}}
             /\ s = b
             /\ op = "start" /\ cy = 0 /\ k = 0 /\ ret = 0 /\ Lockstep

\* from_bytes(r, bytes, nbytes) with bytes = a, all of it: ret holds what it returns
FromBytes == /\ op = "start"
             /\ op' = "from_bytes"
             /\ LET o == from_bytes(N, r, a, Len(a)) IN r' = o.r /\ ret' = o.ret /\ cy' = o.ret
             /\ UNCHANGED <<lanevars, N, a, b, s, k>>

\* to_bytes(bytes, nbytes, r) with bytes = s, a destination of nbytes bytes at
\* least: k holds nbytes and ret what it returns, cy what from_bytes returned
ToBytes == /\ op = "from_bytes"
           /\ op' = "to_bytes"
           /\ \E nbytes \in 0 .. Len(s) :
                 LET o == to_bytes(N, s, nbytes, r)
                 IN  k' = nbytes /\ s' = o.bytes /\ ret' = o.ret
           /\ UNCHANGED <<lanevars, N, a, b, r, cy>>

NextBytes == FromBytes \/ ToBytes

SpecBytes == InitBytes /\ [][NextBytes]_vars

(***************************************************************************)
(* add_cy and sub_br with the lanes of the slot as processes of their own, *)
(* which meet only in the two votes of effective_carries.  A vote hands a  *)
(* lane the mask once every lane of the slot has cast its predicate.       *)
(***************************************************************************)
VoteNames == {"g", "p"}

\* a mutant: a lane takes the mask as it stands
voted_nowait(n, v) == TRUE

voted(n, v) == v.in = Lanes(n)

\* the storage of a lane: the arguments and the locals of add_cy or sub_br and
\* of effective_carries
Regs == {"a", "b", "r", "cy", "propagate", "g", "p", "allcarries", "cy_hi"}

\* lane L has read the storage of its own named in rd and written that in wr
Touch(L, rd, wr) ==
    [at \in DOMAIN acc |->
        IF at[1] = L
           THEN [rd |-> acc[at].rd \cup (IF at[2] \in rd THEN {L} ELSE {}),
                 wr |-> acc[at].wr \cup (IF at[2] \in wr THEN {L} ELSE {})]
           ELSE acc[at]]

\* the digits a and b of a lane that neither carries nor propagates, of one
\* that propagates and of one that carries (or borrows)
LaneDigits(o) ==
    IF o = "lanes add_cy"
       THEN {<<0, 1>>, <<0, B - 1>>, <<B - 1, 1>>}
       ELSE {<<B - 1, 1>>, <<B - 1, B - 1>>, <<0, 1>>}

InitLanes == /\ N \in Widths
             /\ op \in {"lanes add_cy", "lanes sub_br"}
             /\ a \in [Lanes(N) -> {0, B - 1}]
             /\ b \in [Lanes(N) -> {1, B - 1}]
             /\ \A L \in Lanes(N) : <<a[L], b[L]>> \in LaneDigits(op)
             /\ r = zero(N) /\ s = zero(N) /\ cy = 0 /\ k = 0 /\ ret = 0
             /\ pc = [L \in Lanes(N) |-> "digit"]
             /\ loc = [L \in Lanes(N) |->
                          [r |-> 0, cy |-> 0, propagate |-> 0, g |-> 0, p |-> 0, cy_hi |-> 0]]
             /\ votes = [v \in VoteNames |-> [tst |-> [L \in Lanes(N) |-> 0], in |-> {}]]
             /\ acc = [at \in Lanes(N) \X Regs |-> [rd |-> {}, wr |-> {}]]

\* digit::add_cy(r, cy, a, b) or digit::sub_br(r, br, a, b), and the argument
\* digit::is_max(r) or digit::is_min(r) of effective_carries
LaneDigit(L) ==
    /\ pc[L] = "digit"
    /\ LET x == Uniform(1, a[L])
           y == Uniform(1, b[L])
           d == IF op = "lanes add_cy"
                   THEN digit_add_cy(1, x, y)
                   ELSE [r |-> digit_sub_br(1, x, y).r, cy |-> digit_sub_br(1, x, y).br]
           t == IF op = "lanes add_cy" THEN digit_is_max(1, d.r) ELSE digit_is_min(1, d.r)
       IN  loc' = [loc EXCEPT ![L].r = d.r[0], ![L].cy = d.cy[0], ![L].propagate = t[0]]
    /\ pc' = [pc EXCEPT ![L] = "vote g"]
    /\ acc' = Touch(L, {"a", "b", "r"}, {"r", "cy"})
    /\ UNCHANGED <<N, a, b, op, r, s, cy, k, ret, votes>>

\* g = layout::ballot(cy): the lane casts its predicate
LaneVoteG(L) ==
    /\ pc[L] = "vote g"
    /\ votes' = [votes EXCEPT !.g.tst[L] = loc[L].cy, !.g.in = @ \cup {L}]
    /\ pc' = [pc EXCEPT ![L] = "ballot g"]
    /\ acc' = Touch(L, {"cy"}, {})
    /\ UNCHANGED <<N, a, b, op, r, s, cy, k, ret, loc>>

\* g = layout::ballot(cy): the lane receives the mask
LaneBallotG(L) ==
    /\ pc[L] = "ballot g"
    /\ voted(N, votes.g)
    /\ loc' = [loc EXCEPT ![L].g = ballot(N, votes.g.tst)]
    /\ pc' = [pc EXCEPT ![L] = "vote p"]
    /\ acc' = Touch(L, {}, {"g"})
    /\ UNCHANGED <<N, a, b, op, r, s, cy, k, ret, votes>>

\* a mutant: a lane with nothing to propagate goes past the second vote
LaneVoteP_skip(L) ==
    /\ pc[L] = "vote p"
    /\ IF loc[L].propagate = 0
          THEN /\ pc' = [pc EXCEPT ![L] = "carries"]
               /\ UNCHANGED votes
          ELSE /\ pc' = [pc EXCEPT ![L] = "ballot p"]
               /\ votes' = [votes EXCEPT !.p.tst[L] = loc[L].propagate, !.p.in = @ \cup {L}]
    /\ acc' = Touch(L, {"propagate"}, {})
    /\ UNCHANGED <<N, a, b, op, r, s, cy, k, ret, loc>>

\* p = layout::ballot(propagate): the lane casts its predicate
LaneVoteP(L) ==
    /\ pc[L] = "vote p"
    /\ votes' = [votes EXCEPT !.p.tst[L] = loc[L].propagate, !.p.in = @ \cup {L}]
    /\ pc' = [pc EXCEPT ![L] = "ballot p"]
    /\ acc' = Touch(L, {"propagate"}, {})
    /\ UNCHANGED <<N, a, b, op, r, s, cy, k, ret, loc>>

\* p = layout::ballot(propagate): the lane receives the mask
LaneBallotP(L) ==
    /\ pc[L] = "ballot p"
    /\ voted(N, votes.p)
    /\ loc' = [loc EXCEPT ![L].p = ballot(N, votes.p.tst)]
    /\ pc' = [pc EXCEPT ![L] = "carries"]
    /\ acc' = Touch(L, {}, {"p"})
    /\ UNCHANGED <<N, a, b, op, r, s, cy, k, ret, votes>>

\* the rest of effective_carries, and digit::add(r, r, r_cy) or digit::sub(r, r, r_br)
LaneCarries(L) ==
    /\ pc[L] = "carries"
    /\ LET c    == carries_of_votes(N, loc[L].g, loc[L].p)
           r_cy == Uniform(1, Bit(Shr32(c.allcarries, L), 0))
           x    == Uniform(1, loc[L].r)
           d    == IF op = "lanes add_cy" THEN digit_add(1, x, r_cy) ELSE digit_sub(1, x, r_cy)
       IN  loc' = [loc EXCEPT ![L].cy_hi = c.cy_hi, ![L].r = d[0]]
    /\ pc' = [pc EXCEPT ![L] = "done"]
    /\ acc' = Touch(L, {"g", "p", "allcarries", "r"}, {"allcarries", "cy_hi", "r"})
    /\ UNCHANGED <<N, a, b, op, r, s, cy, k, ret, votes>>

Lane(L) ==
    /\ L \in Lanes(N)
    /\ \/ LaneDigit(L) \/ LaneVoteG(L) \/ LaneBallotG(L)
       \/ LaneVoteP(L) \/ LaneBallotP(L) \/ LaneCarries(L)

NextLanes == \E L \in Lanes(N) : Lane(L)

\* a slot with a lane that can take a step is scheduled in the end
SpecLanes == /\ InitLanes /\ [][NextLanes]_vars
             /\ WF_vars(NextLanes)

(***************************************************************************)
(* Carry chains, for the cases the claims name.                            *)
(***************************************************************************)
\* the provisional digit of lane L, before the carries are resolved
ProvSum(x, y, L) == (x[L] + y[L]) % B

ProvDiff(x, y, L) == (x[L] - y[L] + B) % B

\* C1: add_cy leaves cy_hi in {0,1} and cy_hi*2^BITS + value(r) = value(a) + value(b),
\* for every slot width (N = 1 and N = WARPSIZE included); a carry generated in
\* lane g runs through the lanes above it whose provisional sum is the digit
\* maximum (they end at zero) and is absorbed by the first lane that is not
C1_AddCyExact ==
    op = "add_cy" =>
        /\ cy \in {0, 1}
        /\ r \in [Lanes(N) -> Digits]
        /\ cy * Pow2(BITS(N)) + Value(N, r) = Value(N, a) + Value(N, b)
        /\ \A g \in Lanes(N) : \A h \in (g + 1) .. (N - 1) :
              (a[g] + b[g] >= B /\ \A j \in (g + 1) .. (h - 1) : ProvSum(a, b, j) = B - 1)
              => /\ \A j \in (g + 1) .. (h - 1) : r[j] = 0
                 /\ ProvSum(a, b, h) # B - 1 => r[h] = ProvSum(a, b, h) + 1

\* a full-width slot where lane 0 generates a carry that ripples through two
\* lanes at the digit maximum and is absorbed by lane 3
C1_Witness ==
    /\ op = "add_cy" /\ N = WARPSIZE /\ N >= 4
    /\ a[0] + b[0] >= B
    /\ ProvSum(a, b, 1) = B - 1 /\ ProvSum(a, b, 2) = B - 1
    /\ a[3] + b[3] < B - 1
    /\ r[1] = 0 /\ r[2] = 0 /\ r[3] = a[3] + b[3] + 1 /\ cy = 0

\* C2: sub_br leaves br_hi in {0,1}, br_hi = 1 exactly when value(a) < value(b),
\* and value(r) = value(a) - value(b) + br_hi*2^BITS; a borrow generated in lane g
\* runs through the lanes above it whose provisional difference is zero (they
\* end at the digit maximum)
C2_SubBrExact ==
    op = "sub_br" =>
        /\ cy \in {0, 1}
        /\ r \in [Lanes(N) -> Digits]
        /\ (cy = 1) <=> (Value(N, a) < Value(N, b))
        /\ Value(N, r) = Value(N, a) - Value(N, b) + cy * Pow2(BITS(N))
        /\ \A g \in Lanes(N) : \A h \in (g + 1) .. (N - 1) :
              (a[g] < b[g] /\ \A j \in (g + 1) .. (h - 1) : ProvDiff(a, b, j) = 0)
              => /\ \A j \in (g + 1) .. (h - 1) : r[j] = B - 1
                 /\ ProvDiff(a, b, h) # 0 => r[h] = ProvDiff(a, b, h) - 1

\* a full-width slot where lane 0 borrows and the borrow runs through three
\* lanes whose provisional difference is zero and out of the top
C2_Witness ==
    /\ op = "sub_br" /\ N = WARPSIZE /\ N >= 4
    /\ a[0] < b[0]
    /\ \A L \in 1 .. 3 : a[L] = b[L] /\ a[L] # 0
    /\ \A L \in 1 .. 3 : r[L] = B - 1
    /\ cy = 1

Sign(x) == IF x < 0 THEN -1 ELSE IF x > 0 THEN 1 ELSE 0

\* C5: cmp(x, y) is -1, 0 or 1 as value(x) is below, equal to or above value(y);
\* it is 0 exactly when sub_br(x, y) leaves a zero result and a zero borrow;
\* and cmp(x, y) = -cmp(y, x)
C5_CmpOrder ==
    op = "cmp" => /\ ret = Sign(Value(N, a) - Value(N, b))
                  /\ (ret = 0) <=> (sub_br(N, a, b).r = zero(N) /\ sub_br(N, a, b).br_hi = 0)
                  /\ ret = -cmp(N, b, a)

\* x > y although the low lane of x is below the low lane of y: the difference
\* is nonzero and the borrow of lane 0 is absorbed before the top
C5_Witness ==
    /\ op = "cmp" /\ N >= 2
    /\ a[0] < b[0] /\ a[N - 1] > b[N - 1]
    /\ ret = 1

\* value(x)*value(y) as hi*2^BITS + lo with 0 <= lo < 2^BITS, accumulated by
\* Horner's rule over the digits of y in two limbs, so that no intermediate
\* exceeds 2^(BITS + digit::BITS): after the digits n-1 .. j of y,
\* hi*2^BITS + lo = value(x) * (y[n-1]*B^(n-1-j) + ... + y[j])
RECURSIVE WideProductFrom(_, _, _, _)
WideProductFrom(n, x, y, j) ==
    IF j >= n THEN [hi |-> 0, lo |-> 0]
    ELSE LET p == WideProductFrom(n, x, y, j + 1)
             t == p.lo * B + Value(n, x) * y[j]
         IN  [hi |-> p.hi * B + (t \div Pow2(BITS(n))), lo |-> t % Pow2(BITS(n))]

WideProduct(n, x, y) == WideProductFrom(n, x, y, 0)

\* C3: mul_wide leaves value(s)*2^BITS + value(r) = value(a)*value(b):
\* value(s) and value(r) are the high and the low half of the exact product
C3_MulWideExact ==
    op = "mul_wide" => /\ r \in [Lanes(N) -> Digits]
                       /\ s \in [Lanes(N) -> Digits]
                       /\ Value(N, s) = WideProduct(N, a, b).hi
                       /\ Value(N, r) = WideProduct(N, a, b).lo

\* a = b = the maximum value in a full-width slot
C3_Witness ==
    /\ op = "mul_wide" /\ N = WARPSIZE
    /\ \A L \in Lanes(N) : a[L] = B - 1 /\ b[L] = B - 1
    /\ r = one(N)
    /\ s[0] = B - 2 /\ \A L \in 1 .. (N - 1) : s[L] = B - 1

\* C4: mul_lo leaves value(r) = value(a)*value(b) mod 2^BITS, the low half of mul_wide
C4_MulLoIsLowHalf ==
    op = "mul_lo" => /\ r \in [Lanes(N) -> Digits]
                     /\ Value(N, r) = WideProduct(N, a, b).lo
                     /\ r = mul_wide(N, a, b).r

\* a product that does not fit: the high half of mul_wide is nonzero and mul_lo drops it
C4_Witness ==
    /\ op = "mul_lo" /\ N >= 2
    /\ WideProduct(N, a, b).hi > 0
    /\ mul_wide(N, a, b).s # zero(N)
    /\ r # zero(N)

\* value(x)*2^sh as hi*2^BITS + lo with 0 <= lo < 2^BITS, for 0 <= sh <= BITS:
\* lo = value(x)*2^sh mod 2^BITS and hi = floor(value(x)*2^sh / 2^BITS)
WideShift(n, x, sh) ==
    [hi |-> Value(n, x) \div Pow2(BITS(n) - sh),
     lo |-> (Value(n, x) % Pow2(BITS(n) - sh)) * Pow2(sh)]

\* C6: lshift leaves value(y) = value(x)*2^b mod 2^BITS and
\* value(overflow) = floor(value(x)*2^b / 2^BITS), for 0 <= b <= BITS
C6_LshiftExact ==
    op = "lshift" => /\ r \in [Lanes(N) -> Digits]
                     /\ s \in [Lanes(N) -> Digits]
                     /\ Value(N, r) = WideShift(N, a, k).lo
                     /\ Value(N, s) = WideShift(N, a, k).hi

\* a shift by whole lanes plus some bits that leaves bits on both sides
C6_Witness ==
    /\ op = "lshift" /\ N >= 2
    /\ k > DIGIT_BITS /\ k % DIGIT_BITS # 0
    /\ r # zero(N) /\ s # zero(N)
    /\ s[k \div DIGIT_BITS] # 0

\* C7: rshift leaves value(y) = floor(value(x) / 2^b), for 0 <= b <= BITS
C7_RshiftExact ==
    op = "rshift" => /\ r \in [Lanes(N) -> Digits]
                     /\ Value(N, r) = Value(N, a) \div Pow2(k)

\* a shift by whole lanes plus some bits that drops set bits and keeps others
C7_Witness ==
    /\ op = "rshift" /\ N >= 2
    /\ k > DIGIT_BITS /\ k % DIGIT_BITS # 0
    /\ r # zero(N) /\ Value(N, a) % Pow2(k) # 0

\* C8: rshift leaves in underflow the bottom b bits of x as a value:
\* value(underflow) = value(x) mod 2^b
C8_UnderflowIsLowBits ==
    op = "rshift" => Value(N, s) = Value(N, a) % Pow2(k)

\* what the code leaves in underflow: the bottom b bits of x in the top b bit positions
C8_UnderflowTopAligned ==
    op = "rshift" => Value(N, s) = (Value(N, a) % Pow2(k)) * Pow2(BITS(N) - k)

\* C9: for msb(x) + k < BITS, lshift by k and then rshift by k gives x back,
\* and the lshift shifts nothing out
C9_ShiftRoundTrip ==
    op = "round_trip" => r = a /\ s = zero(N)

\* a nonzero x shifted across a lane boundary, up to the top bit, and back
C9_Witness ==
    /\ op = "round_trip" /\ N >= 2
    /\ a # zero(N) /\ k > DIGIT_BITS /\ k % DIGIT_BITS # 0
    /\ msb(N, a) + k = BITS(N) - 1
    /\ r = a

C11_MsbExact ==
    op = "msb" =>
        /\ ret \in -1 .. (BITS(N) - 1)
        /\ (k = -1) <=> (Value(N, a) = 0)
        /\ (ret = -1) <=> (Value(N, a) = 0)
        /\ Value(N, a) # 0 =>
              /\ k \in Lanes(N) /\ a[k] # 0 /\ \A j \in (k + 1) .. (N - 1) : a[j] = 0
              /\ Pow2(ret) <= Value(N, a) /\ Value(N, a) < Pow2(ret + 1)

\* the highest set bit in a middle lane, above the bottom of its digit, in a
\* slot narrower than the vote mask
C11_Witness ==
    /\ op = "msb" /\ N >= 2 /\ N < WARPSIZE
    /\ k = 1 /\ a[0] # 0
    /\ ret = DIGIT_BITS + 1

\* C12: mul_digit(r, a, u) leaves value(r) = value(a)*value(u) mod 2^BITS and
\* returns the overflow, returned*2^BITS + value(r) = value(a)*value(u),
\* whatever r held before the call
C12_MulDigitSetsR ==
    op = "mul_digit" => /\ Value(N, r) = (k * Value(N, a)) % Pow2(BITS(N))
                        /\ ret * Pow2(BITS(N)) + Value(N, r) = k * Value(N, a)

\* what the code does: r is as it was, and the product is in the local lo
\* and the returned digit
C12_MulDigitLeavesR ==
    op = "mul_digit" => /\ r = b
                        /\ cy < B
                        /\ ret * Pow2(BITS(N)) + Value(N, s) = k * Value(N, a)

\* C13: mad_digit_cy(r, a, u) leaves returned*2^BITS + value(r) = r0 + value(a)*value(u),
\* and the returned sum of the top high word and the fold-in carry fits a digit
C13_MadDigitCyExact ==
    op = "mad_digit_cy" => /\ r \in [Lanes(N) -> Digits]
                           /\ cy < B /\ ret = cy
                           /\ ret * Pow2(BITS(N)) + Value(N, r) = Value(N, b) + k * Value(N, a)

\* the fold-in of the high words carries out of the top: the returned digit is
\* the top lane's high word plus one
C13_Witness ==
    /\ op = "mad_digit_cy" /\ N >= 2
    /\ (k * a[N - 1] + b[N - 1]) \div B > 0
    /\ ret = ((k * a[N - 1] + b[N - 1]) \div B) + 1

\* the first BYTES bytes of a buffer, zero-padded if it is shorter
Padded(n, buf) == [i \in 1 .. BYTES(n) |-> IF i <= Len(buf) THEN buf[i] ELSE 0]

\* C14: from_bytes(r, buf, nbytes) returns min(nbytes, BYTES) and leaves r the first
\* min(nbytes, BYTES) bytes of buf and then zeros; a to_bytes(out, nbytes, r) after it
\* returns min(nbytes, BYTES) - BYTES for a destination of BYTES bytes -, writes that
\* many bytes of the zero-padded buf and leaves the later bytes of out as they were
C14_ByteRoundTrip ==
    /\ op \in {"from_bytes", "to_bytes"} =>
          /\ cy = min(Len(a), BYTES(N))
          /\ r = Padded(N, a)
    /\ op = "from_bytes" => ret = cy /\ s = b
    /\ op = "to_bytes" =>
          /\ ret = min(k, BYTES(N))
          /\ k = BYTES(N) => ret = BYTES(N) /\ SubSeq(s, 1, BYTES(N)) = Padded(N, a)
          /\ DOMAIN s = DOMAIN b
          /\ \A i \in DOMAIN s : s[i] = IF i <= ret THEN Padded(N, a)[i] ELSE b[i]

\* a buffer shorter than a fixnum has gone round into a longer destination
C14_Witness ==
    /\ op = "to_bytes" /\ k = BYTES(N)
    /\ Len(a) > 0 /\ Len(a) < BYTES(N) /\ a[Len(a)] = UINT8_MAX
    /\ Len(b) > BYTES(N) /\ b[Len(b)] = UINT8_MAX /\ b[1] = UINT8_MAX /\ a[1] = 0

\* C15: incr_cy(x) returns carry 0 and leaves value(x) + 1, except on the maximum
\* (the digit maximum on every lane), where it leaves 0 and returns carry 1;
\* decr_br after it gives x back, with no borrow, for every x but the maximum
C15_IncrDecr ==
    /\ op \in {"incr_cy", "decr_br"} =>
          /\ r \in [Lanes(N) -> Digits]
          /\ IF \A L \in Lanes(N) : a[L] = B - 1
                THEN cy = 1 /\ Value(N, r) = 0 /\ Value(N, a) = Pow2(BITS(N)) - 1
                ELSE cy = 0 /\ Value(N, r) = Value(N, a) + 1
    /\ op = "decr_br" /\ Value(N, a) # Pow2(BITS(N)) - 1 => s = a /\ ret = 0

\* the carry of the increment has run through every lane but the top one
C15_Witness ==
    /\ op = "decr_br" /\ N = WARPSIZE
    /\ \A L \in Lanes(N) : a[L] = B - 1 <=> L # toplaneIdx(N)
    /\ \A L \in Lanes(N) : r[L] = 0 <=> L # toplaneIdx(N)
    /\ s = a

\* C16: after set(x, d, i) lane i holds d and every other lane the digit it held
\* (no lane changes for i outside [0, N)); get(x, j) for 0 <= j < N hands lane j's
\* digit to every lane: d for j = i after the set, and what get(x, j) gives otherwise
C16_SetGet ==
    /\ op \in {"set", "get"} =>
          \A L \in Lanes(N) : r[L] = IF L = k THEN cy ELSE a[L]
    /\ op \in {"set", "get"} /\ k \notin Lanes(N) => r = a
    /\ op = "get" =>
          /\ \A L \in Lanes(N) : s[L] = r[ret]
          /\ ret = k => s = Uniform(N, cy)
          /\ ret # k => s = Uniform(N, get(N, a, ret))

\* a digit written to the top lane, another lane read back
C16_Witness ==
    /\ op = "get" /\ N = WARPSIZE /\ k = toplaneIdx(N) /\ ret = 1
    /\ cy # a[k] /\ a[1] # a[k] /\ a[1] # cy /\ s[0] = a[1] /\ r[k] = cy

\* what the lanes in lockstep leave
InLockstep ==
    IF op = "lanes add_cy"
       THEN add_cy(N, a, b)
       ELSE [r |-> sub_br(N, a, b).r, cy_hi |-> sub_br(N, a, b).br_hi]

\* no storage one lane writes is written or read by another lane
RaceFree ==
    \A at \in DOMAIN acc :
        acc[at].wr # {} => Cardinality(acc[at].wr \cup acc[at].rd) = 1

\* a lane past a vote has cast its predicate in it, and so has every lane of the slot
BothVotes ==
    \A L \in Lanes(N) :
        /\ pc[L] \in {"vote p", "ballot p", "carries", "done"} =>
              votes.g.in = Lanes(N) /\ loc[L].g = ballot(N, votes.g.tst)
        /\ pc[L] \in {"carries", "done"} =>
              votes.p.in = Lanes(N) /\ loc[L].p = ballot(N, votes.p.tst)

\* a lane that is through holds the cy_hi and the digit of the lockstep run
AsInLockstep ==
    \A L \in Lanes(N) :
        pc[L] = "done" => loc[L].cy_hi = InLockstep.cy_hi /\ loc[L].r = InLockstep.r[L]

AllDone == \A L \in Lanes(N) : pc[L] = "done"

====
